---- MODULE Spec2Model ----
(***************************************************************************)
(* The analysis pipeline as one state machine.  A behaviour is one run of  *)
(* one script, picked by Init together with its input:                     *)
(*   run_02  topic discovery  (src/src/topics/topic_discovery.py)          *)
(*   run_03  document clustering (src/src/cluster/document_clustering.py)  *)
(*   run_04  LLM analysis     (src/src/llm/llm_analyzer.py)                *)
(*   run_all the orchestrator (src/run_all.py)                             *)
(* The actions are the steps of that script's main().  A finished run_02   *)
(* or run_03 may be launched a second time on the same input.              *)
(*                                                                         *)
(* The libraries are modelled by what the code relies on: a trial fit      *)
(* either throws or yields a score; a fitted topic model maps a text to a  *)
(* row of topic weights; the encoder maps a text to a vector; KMeans maps  *)
(* a vector to a label below n_clusters; a call that is given a fixed      *)
(* random_state answers the same arguments the same way every time.        *)
(* Scores, weights and coordinates are small integers (exact arithmetic,   *)
(* no NaN).  The LLM capability answers a request with structured output,  *)
(* with unparsable output, or by raising.                                  *)
(***************************************************************************)
EXTENDS Integers, Sequences, FiniteSets, TLC

\* ---------------------------------------------------------------- bounds
\* Largest corpus handed to run_02 / run_03.
MaxTopicDocs == 8
MaxClusterDocs == 9
\* Scores of a trial lie in -MaxScore..MaxScore.
MaxScore == 1
\* Topic weights of a row are 0..MaxWeight and sum to at most MaxWeight.
MaxWeight == 2
\* Largest configured cap (large_scale.max_topics_search, n_clusters_range[1]).
MaxCap == 3
\* The configured large_scale.sample_size.
SampleSize == 6
\* The configured topic_discovery.n_topics before fit.
CfgTopics == 2
\* Embedding coordinates are 0..MaxCoord.
MaxCoord == 1
\* Largest corpus handed to run_04.
MaxLLMDocs == 3
\* The largest corpus select_representative_documents is applied to.
MaxSelectDocs == 3
\* The largest entry of model.components_ given to get_top_terms.
MaxTermWeight == 2

\* ------------------------------------------------------ program constants
\* find_optimal_topics(self, texts, max_topics: int = 15)
DefaultMaxTopics == 15

\* ---------------------------------------------------------------- helpers
Min(a, b) == IF a < b THEN a ELSE b

\* Python's range(start, stop) as a sequence.
Range(start, stop) ==
    [i \in 1..(IF stop > start THEN stop - start ELSE 0) |-> start + i - 1]

\* The distinct cleaned texts a corpus is made of.
TextList == <<"a", "b">>

Texts == {TextList[i] : i \in 1..Len(TextList)}

\* The corpus of n documents, processed_df['cleaned_text'].tolist(): the
\* texts of TextList in turn, so a longer corpus holds duplicates.
Corpus(n) == [i \in 1..n |-> TextList[((i - 1) % Len(TextList)) + 1]]

RECURSIVE SumSeq(_)
SumSeq(s) == IF s = <<>> THEN 0 ELSE Head(s) + SumSeq(Tail(s))

\* An argmax that keeps the last index holding the largest value.
ArgMaxLast(s) ==
    LET RECURSIVE Scan(_, _)
        Scan(i, best) ==
            IF i > Len(s) THEN best
            ELSE Scan(i + 1, IF s[i] >= s[best] THEN i ELSE best)
    IN Scan(2, 1)

\* np.argmax over a non-empty sequence: scan left to right, keep the first
\* index holding the largest value (1-based here).
ArgMax(s) ==
    LET RECURSIVE Scan(_, _)
        Scan(i, best) ==
            IF i > Len(s) THEN best
            ELSE Scan(i + 1, IF s[i] > s[best] THEN i ELSE best)
    IN Scan(2, 1)

\* ndarray.max over a non-empty row.
MaxOf(s) ==
    LET RECURSIVE Scan(_, _)
        Scan(i, m) ==
            IF i > Len(s) THEN m ELSE Scan(i + 1, IF s[i] > m THEN s[i] ELSE m)
    IN Scan(2, s[1])

Scores == (0 - MaxScore)..MaxScore

\* ------------------------------------------------------------------ state
VARIABLES
    script,             \* the script this process runs
    pc,                 \* position in that script's main()
    error,              \* the exception main() caught ("" while none)
    texts,              \* processed_df['cleaned_text'].tolist()
    files,              \* output files this process has written
    llm_log,            \* requests to the LLM capability and time.sleep calls
    topic_config,       \* config['topic_discovery'] (fit writes n_topics)
    llm_client,         \* TopicDiscovery.llm_client is not None
    fit_n,              \* len(texts) inside fit, after pre-sampling
    topic_range,        \* find_optimal_topics: topic_range
    coherence_scores,   \* find_optimal_topics: coherence_scores
    lda_trials,         \* num_topics of every LdaModel(...) trial fitted
    thrown,             \* candidates whose trial raised inside the try
    optimal_topics,     \* what find_optimal_topics returned (0: nothing)
    vectorizer,         \* self.vectorizer
    model,              \* self.model
    topic_assignments,  \* assign_topics(): topic id per document
    confidence_scores,  \* assign_topics(): confidence per document
    assignments_csv,    \* rows of topic_assignments.csv
    clustering_config,  \* config['clustering']
    embedding_model,    \* self.embedding_model ("None" until loaded)
    embeddings,         \* self.embeddings: one vector per document
    k_range,            \* find_optimal_k: k_range
    silhouette_scores,  \* find_optimal_k: silhouette_scores
    kmeans_trials,      \* n_clusters of every trial KMeans fitted
    silhouette_calls,   \* candidates silhouette_score was computed for
    one_label,          \* candidates whose trial partition had one label
    optimal_k,          \* what find_optimal_k returned (0: nothing)
    cluster_labels,     \* cluster_results['cluster_labels']
    cluster_stats,      \* cluster_results['cluster_stats']
    cluster_csv,        \* rows of cluster_assignments.csv
    client,             \* LLMAnalyzer.client is not None
    cluster_assignments,   \* run_04: rows read from cluster_assignments.csv
    cluster_texts,         \* run_04: cluster_texts, in insertion order
    individual_analyses,   \* analyze_cluster: individual_analyses
    analysis_results,      \* run_04: analysis_results
    args,               \* run_all: the parsed command line
    all_scripts,        \* run_pipeline: all_scripts after the selection
    launched,           \* scripts handed to subprocess.run, in order
    pipeline_result,    \* what run_pipeline / run_individual_step returned
    artifacts,          \* outputs/ as the stage processes left it
    inputs,             \* the input files present in outputs/csv
    global_rng,         \* the process-wide state of Python's random module
    topic_names,        \* save_results: topic_names (line 385)
    n_representatives,  \* select_representative_documents: n_representatives
    representative_indices,  \* what select_representative_documents returned
    components,         \* get_top_terms: self.model.components_
    n_terms,            \* get_top_terms: n_terms
    top_terms,          \* what get_top_terms returned
    launches,           \* how many times the script is launched (1 or 2)
    run,                \* 1: first launch, 2: launched again
    memo,               \* answers the seeded library calls have given
    prev                \* what the first launch produced

topic_vars == <<topic_config, llm_client, fit_n, topic_range, coherence_scores,
                lda_trials, thrown, optimal_topics, vectorizer, model,
                topic_assignments, confidence_scores, assignments_csv>>

cluster_vars == <<clustering_config, embedding_model, embeddings, k_range,
                  silhouette_scores, kmeans_trials, silhouette_calls,
                  one_label, optimal_k, cluster_labels, cluster_stats,
                  cluster_csv>>

llm_vars == <<client, cluster_assignments, cluster_texts, individual_analyses,
              analysis_results>>

pipe_vars == <<args, all_scripts, launched, pipeline_result, artifacts>>

io_vars == <<inputs, global_rng, topic_names>>

fn_vars == <<n_representatives, representative_indices, components, n_terms,
             top_terms>>

vars == <<script, pc, error, texts, files, llm_log, topic_vars, cluster_vars,
          llm_vars, pipe_vars, io_vars, fn_vars, launches, run, memo, prev>>

\* ---------------------------------------------------------- configuration
Algorithms == {"lda", "nmf", "svd"}

LargeScaleConfigs ==
    {[enabled |-> FALSE, sample_size |-> SampleSize, max_topics_search |-> MaxCap,
      use_keyword_naming |-> FALSE]}
    \cup [enabled : {TRUE}, sample_size : {SampleSize},
          max_topics_search : 1..MaxCap, use_keyword_naming : {FALSE}]

TopicConfigs ==
    [auto_find_topics : BOOLEAN, n_topics : {CfgTopics},
     algorithm : Algorithms, large_scale : LargeScaleConfigs]

\* The configurations run with an OPENAI_API_KEY (use_keyword_naming off).
NamingConfigs ==
    {cfg \in TopicConfigs : cfg.algorithm = "lda" /\ ~cfg.large_scale.enabled}

\* The same with large_scale.use_keyword_naming on.
KeywordNamingConfigs ==
    {[cfg EXCEPT !.large_scale.use_keyword_naming = TRUE] : cfg \in NamingConfigs}

DefaultTopicConfig ==
    [auto_find_topics |-> TRUE, n_topics |-> CfgTopics, algorithm |-> "lda",
     large_scale |-> [enabled |-> FALSE, sample_size |-> SampleSize,
                      max_topics_search |-> MaxCap,
                      use_keyword_naming |-> FALSE]]

ClusteringConfigs == [n_clusters_max : 1..MaxCap, algorithm : {"kmeans", "dbscan"}]

DefaultClusteringConfig == [n_clusters_max |-> MaxCap, algorithm |-> "kmeans"]

NoVectorizer == [fitted |-> FALSE, n_docs |-> 0]

NoModel == [fitted |-> FALSE, algorithm |-> "", n_components |-> 0,
            doc_topic |-> <<>>]

\* ------------------------------------------------- seeded library calls
\* A call of library function fn with argument k under random_state=42 (or
\* random.seed(42)): the key its answer is remembered under.
Call(fn, k) == [fn |-> fn, k |-> k]

\* A call that is not given a seed: its answer is bound by nothing.
Unseeded(key, v) == memo' = memo

\* The answers of seeded calls (a function from calls to answers): each is
\* free the first time the call is made, and the same answer whenever the
\* same call is made again.  The answers are remembered in the behaviours
\* that launch the script a second time; nothing else reads them.
SeededAll(answers) ==
    /\ \A key \in DOMAIN answers :
          key \in DOMAIN memo => answers[key] = memo[key]
    /\ memo' = IF launches = 2 THEN memo @@ answers ELSE memo

\* The answer v of one seeded call.
Seeded(key, v) == SeededAll(key :> v)

\* ------------------------------------------------- the LLM capability
\* What self.client.chat.completions.create does: returns text holding the
\* structured answer ("ok"), returns text that does not parse, or raises.
Responses == {"ok", "malformed", "error"}

\* Entries of llm_log.
Request(kind, id, response) ==
    [op |-> "request", kind |-> kind, id |-> id, response |-> response]

Sleep == [op |-> "sleep", kind |-> "", id |-> <<0, 0>>, response |-> ""]

\* ------------------------------------------------------- stage inputs
\* The files a stage's main() reads with pd.read_csv before anything else
\* (run_02 line 36, run_03 line 37, run_04 lines 38-39).
RequiredInputs(stage) ==
    CASE stage = "run_02" -> {"preprocessed_data.csv"}
      [] stage = "run_03" -> {"preprocessed_data.csv"}
      [] stage = "run_04" -> {"preprocessed_data.csv", "cluster_assignments.csv"}
      [] OTHER -> {}

\* The data load of main() succeeded.
InputsLoaded == RequiredInputs(script) \subseteq inputs

\* sys.exit(0 if success else 1): main() returns True only from its end.
ExitCode(at) == IF at = "done" THEN 0 ELSE 1

\* A missing input that main() passes over and reports success.
MissingInputReturnsTrue ==
    /\ pc' = "done"
    /\ UNCHANGED error

\* except FileNotFoundError: return False.
MissingInputReturnsFalse ==
    /\ pc' = "failed"
    /\ error' = "FileNotFoundError"

\* main() up to its data load when a required file is missing.
MissingInput ==
    /\ script \in {"run_02", "run_03", "run_04"} /\ pc = "main"
    /\ ~InputsLoaded
    /\ MissingInputReturnsFalse
    /\ UNCHANGED <<script, texts, files, llm_log, topic_vars, cluster_vars,
                   llm_vars, pipe_vars, io_vars, fn_vars, launches, run,
                   memo, prev>>

\* ------------------------------------------------------- topic discovery
\* find_optimal_topics: the large-corpus mode lowers max_topics.
MaxTopicsSearch(cfg, max_topics) ==
    IF cfg.large_scale.enabled
    THEN Min(max_topics, cfg.large_scale.max_topics_search)
    ELSE max_topics

\* topic_range = range(2, min(max_topics + 1, len(texts) // 2))
TopicRange(n, max_topics) == Range(2, Min(max_topics + 1, n \div 2))

\* _handle_large_scale_data: the length of the list it returns.
HandleLargeScaleData(n, cfg) ==
    IF n > cfg.sample_size THEN cfg.sample_size ELSE n

\* _handle_large_scale_data, lines 166-170: the state of module random after
\* "import random; random.seed(42); random.sample(...)", which runs only
\* when the corpus is larger than sample_size.
GlobalRngAfterSampling(rng, n, cfg) ==
    IF n > cfg.sample_size THEN "seed(42), sampled" ELSE rng

\* Rows of model.transform(X): K non-negative weights.
Rows(K) == {r \in [1..K -> 0..MaxWeight] : SumSeq(r) <= MaxWeight}

\* topic_distributions = self.model.transform(self.vectorizer.transform(texts)):
\* equal texts get equal rows.
TopicDistributions(m, txts) == [i \in 1..Len(txts) |-> m.doc_topic[txts[i]]]

\* An assignment that takes the index of the smallest weight.
ArgMinRows(dist) ==
    [i \in 1..Len(dist) |-> ArgMax([k \in 1..Len(dist[i]) |-> 0 - dist[i][k]]) - 1]

\* topic_distributions.argmax(axis=1), 0-based topic ids.
ArgMaxRows(dist) == [i \in 1..Len(dist) |-> ArgMax(dist[i]) - 1]

\* topic_distributions.max(axis=1)
MaxRows(dist) == [i \in 1..Len(dist) |-> MaxOf(dist[i])]

\* A save that assigns only the n texts the model was fitted on.
SampledTexts(txts, n) == SubSeq(txts, 1, n)

\* The texts save_results hands to assign_topics: its own argument, the
\* whole corpus (never the pre-sampled list, which is local to fit).
SavedTexts(txts, n) == txts

\* save_results: the rows of topic_assignments.csv.
AssignmentRows(ids, conf) ==
    [i \in 1..Min(Len(ids), Len(conf)) |->
        [document_id |-> i - 1, topic_id |-> ids[i], confidence |-> conf[i]]]

\* generate_topic_names: the topics that have documents (topic_texts is
\* not empty); the others get their default name without a request.
TopicsWithTexts(ids, n_topics) ==
    {t \in 0..(n_topics - 1) : \E i \in 1..Len(ids) : ids[i] = t}

\* generate_topic_names with a client (lines 194-244): for each topic with
\* documents, ascending, one request; time.sleep(0.1) follows inside the
\* try, so only when the request did not raise.
GenerateTopicNames(ids, n_topics, responses) ==
    LET RECURSIVE Loop(_)
        Loop(t) ==
            IF t >= n_topics THEN <<>>
            ELSE (IF t \in TopicsWithTexts(ids, n_topics)
                  THEN <<Request("topic", <<t, 0>>, responses[t])>>
                       \o (IF responses[t] = "error" THEN <<>> ELSE <<Sleep>>)
                  ELSE <<>>) \o Loop(t + 1)
    IN Loop(0)

\* generate_topic_names goes to the client: use_keyword_naming is off and
\* there is a client (lines 182-190).
NamesFromLLM(cfg, has_client) ==
    ~cfg.large_scale.use_keyword_naming /\ has_client

\* A naming that leaves out the topics it made no successful request for.
TopicNamesOfAnswered(cfg, has_client, ids, responses) ==
    IF ~NamesFromLLM(cfg, has_client)
    THEN [t \in 0..(cfg.n_topics - 1) |-> "keyword"]
    ELSE [t \in {u \in TopicsWithTexts(ids, cfg.n_topics) : responses[u] # "error"}
             |-> "llm"]

\* The dictionary generate_topic_names returns, each name by its origin:
\* "keyword" from _generate_topic_names_from_keywords (every topic id in
\* range(n_topics)), "llm" the stripped answer, "default" the name
\* built from topic_id + 1 for a topic without documents (line 199) or
\* whose request raised (line 244).
TopicNamesOf(cfg, has_client, ids, responses) ==
    IF ~NamesFromLLM(cfg, has_client)
    THEN [t \in 0..(cfg.n_topics - 1) |-> "keyword"]
    ELSE [t \in 0..(cfg.n_topics - 1) |->
             IF t \notin TopicsWithTexts(ids, cfg.n_topics) THEN "default"
             ELSE IF responses[t] = "error" THEN "default"
             ELSE "llm"]

\* The files save_results writes, in the order it writes them.
TopicTables == {"global_topics_top_terms.csv", "topic_assignments.csv",
                "topic_summary.csv"}

TopicDocuments == {"all_topic_documents.csv"}

Fail(reason) == pc' = "failed" /\ error' = reason

\* fit, lines 110-122 and find_optimal_topics up to its loop.
FitBegin ==
    /\ script = "run_02" /\ pc = "main"
    /\ InputsLoaded
    /\ LET ls == topic_config.large_scale
           n  == IF ls.enabled THEN HandleLargeScaleData(Len(texts), ls)
                 ELSE Len(texts)
       IN /\ fit_n' = n
          /\ IF topic_config.auto_find_topics
             THEN /\ topic_range' =
                        TopicRange(n, MaxTopicsSearch(topic_config, DefaultMaxTopics))
                  /\ pc' = "sweep"
             ELSE /\ topic_range' = <<>>
                  /\ pc' = "vectorize"
    /\ coherence_scores' = <<>>
    /\ global_rng' = IF topic_config.large_scale.enabled
                     THEN GlobalRngAfterSampling(global_rng, Len(texts),
                                                 topic_config.large_scale)
                     ELSE global_rng
    /\ UNCHANGED <<script, error, texts, files, llm_log, topic_config,
                   llm_client, lda_trials, thrown,
                   optimal_topics, vectorizer, model, topic_assignments,
                   confidence_scores, assignments_csv, cluster_vars,
                   llm_vars, pipe_vars, inputs, topic_names, fn_vars,
                   launches, run, memo, prev>>

\* One iteration of the sweep loop (lines 74-102): the trial fit and its
\* coherence are appended ...
TopicTrialScore(k, s) ==
    /\ coherence_scores' = Append(coherence_scores, s)
    /\ UNCHANGED <<thrown, pc, error>>

\* A trial whose exception leaves the loop.
TopicTrialRaisePropagates(k) ==
    /\ thrown' = thrown \cup {k}
    /\ Fail("trial LdaModel raised")
    /\ UNCHANGED coherence_scores

\* ... or the trial raises inside the try: except appends 0.
TopicTrialRaise(k) ==
    /\ coherence_scores' = Append(coherence_scores, 0)
    /\ thrown' = thrown \cup {k}
    /\ UNCHANGED <<pc, error>>

\* LdaModel(..., num_topics=n_topics, random_state=42, ...) and its
\* coherence: seeded.
TopicTrial ==
    /\ script = "run_02" /\ pc = "sweep"
    /\ Len(coherence_scores) < Len(topic_range)
    /\ LET k == topic_range[Len(coherence_scores) + 1]
       IN /\ lda_trials' = Append(lda_trials, k)
          /\ \/ \E s \in Scores :
                   /\ Seeded(Call("LdaModel", k), [raised |-> FALSE, score |-> s])
                   /\ TopicTrialScore(k, s)
             \/ /\ Seeded(Call("LdaModel", k), [raised |-> TRUE, score |-> 0])
                /\ TopicTrialRaise(k)
    /\ UNCHANGED <<script, texts, files, llm_log, topic_config, llm_client,
                   fit_n, topic_range,
                   optimal_topics, vectorizer, model, topic_assignments,
                   confidence_scores, assignments_csv, cluster_vars,
                   llm_vars, pipe_vars, io_vars, fn_vars, launches, run, prev>>

\* A fit that leaves the configured n_topics as it was.
KeepNTopics(cfg, k) == cfg

\* self.topic_config['n_topics'] = optimal_topics (fit, line 122)
SetNTopics(cfg, k) == [cfg EXCEPT !.n_topics = k]

\* optimal_topics = topic_range[np.argmax(coherence_scores)] (lines 105-108)
\* and fit's self.topic_config['n_topics'] = optimal_topics (line 122).
TopicSelect ==
    /\ script = "run_02" /\ pc = "sweep"
    /\ Len(coherence_scores) = Len(topic_range)
    /\ \/ /\ coherence_scores = <<>>
          /\ Fail("ValueError: attempt to get argmax of an empty sequence")
          /\ UNCHANGED <<optimal_topics, topic_config>>
       \/ /\ coherence_scores # <<>>
          /\ optimal_topics' = topic_range[ArgMax(coherence_scores)]
          /\ topic_config' = SetNTopics(topic_config, optimal_topics')
          /\ pc' = "vectorize"
          /\ UNCHANGED error
    /\ UNCHANGED <<script, texts, files, llm_log, llm_client, fit_n,
                   topic_range, coherence_scores,
                   lda_trials, thrown, vectorizer, model, topic_assignments,
                   confidence_scores, assignments_csv, cluster_vars,
                   llm_vars, pipe_vars, io_vars, fn_vars, launches, run, memo, prev>>

\* fit, lines 124-157: vectorizer, algorithm switch, model.fit (the models
\* are built with random_state=42).
FitModel ==
    /\ script = "run_02" /\ pc = "vectorize"
    /\ \/ /\ Seeded(Call("CountVectorizer", 0), "empty vocabulary")
          /\ Fail("ValueError: empty vocabulary")
          /\ UNCHANGED <<vectorizer, model, topic_range, coherence_scores,
                         lda_trials, thrown>>
       \/ /\ topic_config.algorithm \notin {"lda", "nmf"}
          /\ Seeded(Call("CountVectorizer", 0), "vocabulary")
          /\ vectorizer' = [fitted |-> TRUE, n_docs |-> fit_n]
          /\ Fail("ValueError: unsupported algorithm")
          /\ UNCHANGED <<model, topic_range, coherence_scores, lda_trials, thrown>>
       \/ /\ topic_config.algorithm \in {"lda", "nmf"}
          /\ vectorizer' = [fitted |-> TRUE, n_docs |-> fit_n]
          /\ \E dt \in [Texts -> Rows(topic_config.n_topics)] :
                /\ SeededAll((Call("CountVectorizer", 0) :> "vocabulary")
                             @@ (Call("model.fit", topic_config.n_topics) :> dt))
                /\ model' = [fitted |-> TRUE, algorithm |-> topic_config.algorithm,
                             n_components |-> topic_config.n_topics,
                             doc_topic |-> dt]
          /\ pc' = "fitted"
          /\ topic_range' = <<>> /\ coherence_scores' = <<>>
          /\ lda_trials' = <<>> /\ thrown' = {}
          /\ UNCHANGED error
    /\ UNCHANGED <<script, texts, files, llm_log, topic_config, llm_client,
                   fit_n, optimal_topics,
                   topic_assignments, confidence_scores, assignments_csv,
                   cluster_vars, llm_vars, pipe_vars, io_vars, fn_vars, launches, run, prev>>

\* A transform that fits the vectorizer anew on the texts it is given.
VectorizerFitTransform(txts) ==
    vectorizer' = [fitted |-> TRUE, n_docs |-> Len(txts)]

\* X = self.vectorizer.transform(texts) (assign_topics, line 347): the
\* fitted vectorizer is applied, not fitted.
VectorizerTransform(txts) == UNCHANGED vectorizer

\* assign_topics(texts) as main() calls it (run_02, line 60).
AssignTopics ==
    /\ script = "run_02" /\ pc = "fitted"
    /\ VectorizerTransform(texts)
    /\ LET dist == TopicDistributions(model, texts)
       IN /\ topic_assignments' = ArgMaxRows(dist)
          /\ confidence_scores' = MaxRows(dist)
    /\ pc' = "assigned"
    /\ UNCHANGED <<script, error, texts, files, llm_log, topic_config,
                   llm_client, fit_n, topic_range,
                   coherence_scores, lda_trials, thrown, optimal_topics,
                   model, assignments_csv, cluster_vars,
                   llm_vars, pipe_vars, io_vars, fn_vars, launches, run, memo, prev>>

\* save_results(texts, output_dir), lines 381-423: topic names (line 385),
\* the top-terms table, the assignment table (lines 400-414), the topic
\* summary, whose create_topic_summary calls generate_topic_names a second
\* time (line 362), and the per-topic documents.
SaveResults ==
    /\ script = "run_02" /\ pc = "assigned"
    /\ VectorizerTransform(SavedTexts(texts, fit_n))
    /\ LET dist == TopicDistributions(model, SavedTexts(texts, fit_n))
           ids  == ArgMaxRows(dist)
           n_topics == topic_config.n_topics
           named == TopicsWithTexts(ids, n_topics)
       IN /\ assignments_csv' = AssignmentRows(ids, MaxRows(dist))
          /\ IF NamesFromLLM(topic_config, llm_client)
             THEN \E first, second \in [named -> {"ok", "error"}] :
                     /\ llm_log' = llm_log
                                   \o GenerateTopicNames(ids, n_topics, first)
                                   \o GenerateTopicNames(ids, n_topics, second)
                     /\ topic_names' =
                           TopicNamesOf(topic_config, llm_client, ids, first)
             ELSE /\ UNCHANGED llm_log
                  /\ topic_names' =
                        TopicNamesOf(topic_config, llm_client, ids, <<>>)
    /\ files' = files \cup TopicTables \cup TopicDocuments
    /\ pc' = "saved"
    /\ UNCHANGED <<script, error, texts, topic_config, llm_client, fit_n,
                   topic_range,
                   coherence_scores, lda_trials, thrown, optimal_topics,
                   model, topic_assignments, confidence_scores,
                   cluster_vars, llm_vars, pipe_vars, inputs, global_rng,
                   fn_vars, launches, run, memo, prev>>

\* visualize_topics (run_02, line 68): the chart is written, or drawing or
\* writing it raises.
VisualizeTopics ==
    /\ script = "run_02" /\ pc = "saved"
    /\ \/ /\ files' = files \cup {"topic_distribution.png"}
          /\ pc' = "done"
          /\ UNCHANGED error
       \/ /\ Fail("visualize_topics raised")
          /\ UNCHANGED files
    /\ UNCHANGED <<script, texts, llm_log, topic_vars, cluster_vars, llm_vars,
                   pipe_vars, io_vars, fn_vars, launches, run, memo, prev>>

\* --------------------------------------------------- document clustering
\* Embedding vectors: two non-negative integer coordinates.
Vec == (0..MaxCoord) \X (0..MaxCoord)

Dot(u, v) == u[1] * v[1] + u[2] * v[2]

\* cluster_documents: max_k = min(n_clusters_range[1], len(texts) // 3)
MaxK(cfg, n) == Min(cfg.n_clusters_max, n \div 3)

\* A range that forgets max_k.
KRangeHalf(n, max_k) == Range(2, n \div 2)

\* find_optimal_k: k_range = range(2, min(max_k + 1, len(embeddings) // 2))
KRange(n, max_k) == Range(2, Min(max_k + 1, n \div 2))

\* A final fit with max_k clusters.
FinalNClustersMaxK(k, max_k) == max_k

\* The n_clusters of the final KMeans in cluster_documents: optimal_k.
FinalNClusters(k, max_k) == k

\* np.unique(cluster_labels): the distinct labels, ascending.
RECURSIVE SortedSeq(_)
SortedSeq(S) ==
    IF S = {} THEN <<>>
    ELSE LET m == CHOOSE x \in S : \A y \in S : x <= y
         IN <<m>> \o SortedSeq(S \ {m})

UniqueLabels(labels) == SortedSeq({labels[i] : i \in 1..Len(labels)})

\* The documents (1-based positions) under cluster_mask, ascending.
Members(labels, cid) ==
    LET RECURSIVE Pick(_)
        Pick(i) ==
            IF i > Len(labels) THEN <<>>
            ELSE (IF labels[i] = cid THEN <<i>> ELSE <<>>) \o Pick(i + 1)
    IN Pick(1)

\* cluster_embeddings.mean(axis=0), scaled by the member count: the sum of
\* the member vectors (cosine similarity ignores the positive scale).
ClusterCenter(emb, members) ==
    LET RECURSIVE Add(_)
        Add(i) ==
            IF i > Len(members) THEN <<0, 0>>
            ELSE LET r == Add(i + 1)
                 IN <<emb[members[i]][1] + r[1], emb[members[i]][2] + r[2]>>
    IN Add(1)

\* cosine_similarity(v, center) = p / (sqrt(a) * |center|), kept as the pair
\* (p, a); a zero vector has similarity 0.
Similarity(v, center) ==
    [p |-> Dot(v, center), a |-> IF Dot(v, v) = 0 THEN 1 ELSE Dot(v, v)]

Similarities(emb, members) ==
    [i \in 1..Len(members) |->
        Similarity(emb[members[i]], ClusterCenter(emb, members))]

SignedSquare(p) == IF p < 0 THEN 0 - p * p ELSE p * p

\* x > y for two similarities to the same center.
SimGreater(x, y) == SignedSquare(x.p) * y.a > SignedSquare(y.p) * x.a

\* An argmax of similarities that keeps the last position of the largest.
ArgMaxSimLast(sims) ==
    LET RECURSIVE Scan(_, _)
        Scan(i, best) ==
            IF i > Len(sims) THEN best
            ELSE Scan(i + 1, IF ~SimGreater(sims[best], sims[i]) THEN i ELSE best)
    IN Scan(2, 1) - 1

\* np.argmax(similarities), 0-based: the first position of the largest.
ArgMaxSim(sims) ==
    LET RECURSIVE Scan(_, _)
        Scan(i, best) ==
            IF i > Len(sims) THEN best
            ELSE Scan(i + 1, IF SimGreater(sims[i], sims[best]) THEN i ELSE best)
    IN Scan(2, 1) - 1

\* _create_cluster_stats: one row per distinct label.
CreateClusterStats(txts, labels, emb) ==
    LET ids == UniqueLabels(labels)
        Row(cid) ==
            LET members == Members(labels, cid)
                texts_of_cluster == [j \in 1..Len(members) |-> txts[members[j]]]
                idx == ArgMaxSim(Similarities(emb, members))
            IN [cluster_id |-> cid,
                document_count |-> Len(texts_of_cluster),
                representative_idx |-> idx,
                representative_text |-> texts_of_cluster[idx + 1],
                sample_texts |-> IF Len(texts_of_cluster) >= 3
                                 THEN SubSeq(texts_of_cluster, 1, 3)
                                 ELSE texts_of_cluster]
    IN [j \in 1..Len(ids) |-> Row(ids[j])]

\* The orders (0-based positions of n values) np.argsort / ndarray.argsort
\* can return: ascending, positions of equal values in any order (the
\* default kind, quicksort, is not stable). greater holds the pairs
\* <<x, y>> of positions with the value at x larger than the value at y.
ArgSorts(n, greater) ==
    {o \in [1..n -> 0..(n - 1)] :
        /\ \A i, j \in 1..n : i # j => o[i] # o[j]
        /\ \A i, j \in 1..n : i < j => <<o[i], o[j]>> \notin greater}

\* The Python slice s[-n:] for n >= 0: -0 is 0, so s[-0:] is the whole of s.
LastN(s, n) ==
    IF n = 0 \/ n >= Len(s) THEN s ELSE SubSeq(s, Len(s) - n + 1, Len(s))

\* s[::-1]
Reversed(s) == [i \in 1..Len(s) |-> s[Len(s) + 1 - i]]

\* n_representatives: int = 3
DefaultNRepresentatives == 3

\* select_representative_documents: the flat lists (0-based document
\* indices, clusters in np.unique order) it can return.
SelectRepresentativeDocumentsOf(labels, emb, n) ==
    LET ids == UniqueLabels(labels)
        Selected(cid) ==
            LET cluster_indices == Members(labels, cid)
                similarities == Similarities(emb, cluster_indices)
                at == 0..(Len(cluster_indices) - 1)
                SimGreaterAt ==
                    {p \in at \X at :
                        SimGreater(similarities[p[1] + 1], similarities[p[2] + 1])}
            IN {[i \in 1..Len(LastN(o, n)) |->
                    cluster_indices[Reversed(LastN(o, n))[i] + 1] - 1] :
                  o \in ArgSorts(Len(cluster_indices), SimGreaterAt)}
        RECURSIVE Extend(_)
        Extend(j) ==
            IF j > Len(ids) THEN {<<>>}
            ELSE {sel \o rest : sel \in Selected(ids[j]), rest \in Extend(j + 1)}
    IN Extend(1)

\* A call of select_representative_documents(texts, cluster_labels,
\* embeddings, n_representatives).
SelectRepresentativeDocuments ==
    /\ script = "select_representative_documents" /\ pc = "main"
    /\ representative_indices' \in
          SelectRepresentativeDocumentsOf(cluster_labels, embeddings,
                                          n_representatives)
    /\ pc' = "done"
    /\ UNCHANGED <<script, error, texts, files, llm_log, topic_vars,
                   cluster_vars, llm_vars, pipe_vars, io_vars,
                   n_representatives, components, n_terms, top_terms,
                   launches, run, memo, prev>>

\* self.feature_names = vectorizer.get_feature_names_out(): the vocabulary
\* in its (sorted) order.
FeatureNames == <<"x", "y", "z">>

\* get_top_terms: the dictionaries it can return for components (one row of
\* term weights per topic): topic_idx -> list of (term, weight).
GetTopTermsOf(comps, n) ==
    LET TopOf(topic) ==
            LET at == 0..(Len(topic) - 1)
                WeightGreaterAt ==
                    {p \in at \X at : topic[p[1] + 1] > topic[p[2] + 1]}
            IN {[i \in 1..Len(LastN(o, n)) |->
                    <<FeatureNames[Reversed(LastN(o, n))[i] + 1],
                      topic[Reversed(LastN(o, n))[i] + 1]>>] :
                  o \in ArgSorts(Len(topic), WeightGreaterAt)}
    IN {tt \in [0..(Len(comps) - 1) -> UNION {TopOf(comps[k]) : k \in 1..Len(comps)}] :
          \A k \in 0..(Len(comps) - 1) : tt[k] \in TopOf(comps[k + 1])}

\* A call of get_top_terms(n_terms) on a fitted model.
GetTopTerms ==
    /\ script = "get_top_terms" /\ pc = "main"
    /\ top_terms' \in GetTopTermsOf(components, n_terms)
    /\ pc' = "done"
    /\ UNCHANGED <<script, error, texts, files, llm_log, topic_vars,
                   cluster_vars, llm_vars, pipe_vars, io_vars,
                   n_representatives, representative_indices, components,
                   n_terms, launches, run, memo, prev>>

\* save_cluster_results: the rows of cluster_assignments.csv.
ClusterAssignmentRows(labels) ==
    [i \in 1..Len(labels) |-> [document_id |-> i - 1, cluster_id |-> labels[i]]]

\* The files save_cluster_results writes.
ClusterTables == {"cluster_summary.csv", "cluster_assignments.csv",
                  "representative_indices.json"}

\* load_embedding_model (lines 23-35), reached through create_embeddings:
\* the configured model loads; or loading it raises and the except branch
\* loads 'all-MiniLM-L6-v2' in its place; or that raises too.
LoadEmbeddingModel ==
    /\ script = "run_03" /\ pc = "main"
    /\ InputsLoaded
    /\ \/ /\ Seeded(Call("SentenceTransformer", 0), "configured")
          /\ embedding_model' = "configured"
          /\ pc' = "embed"
          /\ UNCHANGED error
       \/ /\ Seeded(Call("SentenceTransformer", 0), "fallback")
          /\ embedding_model' = "all-MiniLM-L6-v2"
          /\ pc' = "embed"
          /\ UNCHANGED error
       \/ /\ Seeded(Call("SentenceTransformer", 0), "unavailable")
          /\ Fail("SentenceTransformer raised")
          /\ UNCHANGED embedding_model
    /\ UNCHANGED <<script, texts, files, llm_log, topic_vars,
                   clustering_config, embeddings, k_range, silhouette_scores,
                   kmeans_trials, silhouette_calls, one_label, optimal_k,
                   cluster_labels, cluster_stats, cluster_csv, llm_vars,
                   pipe_vars, io_vars, fn_vars, launches, run, prev>>

\* cluster_documents up to the sweep loop of find_optimal_k: encode (equal
\* texts get equal vectors), max_k, k_range.
ClusterBegin ==
    /\ script = "run_03" /\ pc = "embed"
    /\ \E enc \in [Texts -> Vec] :
          /\ Seeded(Call("encode", 0), enc)
          /\ embeddings' = [i \in 1..Len(texts) |-> enc[texts[i]]]
    /\ k_range' = KRange(Len(texts), MaxK(clustering_config, Len(texts)))
    /\ silhouette_scores' = <<>>
    /\ pc' = "ksweep"
    /\ UNCHANGED <<script, error, texts, files, llm_log, topic_vars,
                   clustering_config, embedding_model,
                   kmeans_trials, silhouette_calls, one_label, optimal_k,
                   cluster_labels, cluster_stats,
                   cluster_csv, llm_vars, pipe_vars, io_vars, fn_vars, launches, run, prev>>

\* One iteration of find_optimal_k's loop (lines 56-64); it has no try.
\* More than one label: silhouette_score is computed and appended.
KTrialScore(k, s) ==
    /\ silhouette_scores' = Append(silhouette_scores, s)
    /\ silhouette_calls' = Append(silhouette_calls, k)
    /\ UNCHANGED <<one_label, pc, error>>

\* A one-label trial that is handed to silhouette_score all the same.
KTrialOneLabelScored(k) ==
    /\ silhouette_scores' = Append(silhouette_scores, 0)
    /\ silhouette_calls' = Append(silhouette_calls, k)
    /\ one_label' = one_label \cup {k}
    /\ UNCHANGED <<pc, error>>

\* One label: the else branch appends 0.
KTrialOneLabel(k) ==
    /\ silhouette_scores' = Append(silhouette_scores, 0)
    /\ one_label' = one_label \cup {k}
    /\ UNCHANGED <<silhouette_calls, pc, error>>

KTrialRaise(k) ==
    /\ Fail("trial KMeans raised")
    /\ UNCHANGED <<silhouette_scores, silhouette_calls, one_label>>

\* KMeans(n_clusters=k, random_state=42, n_init=10): seeded.
KTrial ==
    /\ script = "run_03" /\ pc = "ksweep"
    /\ Len(silhouette_scores) < Len(k_range)
    /\ LET k == k_range[Len(silhouette_scores) + 1]
       IN /\ kmeans_trials' = Append(kmeans_trials, k)
          /\ \/ \E s \in Scores :
                   /\ Seeded(Call("KMeans", k), [labels |-> "many", score |-> s])
                   /\ KTrialScore(k, s)
             \/ /\ Seeded(Call("KMeans", k), [labels |-> "one", score |-> 0])
                /\ KTrialOneLabel(k)
             \/ /\ Seeded(Call("KMeans", k), [labels |-> "raised", score |-> 0])
                /\ KTrialRaise(k)
    /\ UNCHANGED <<script, texts, files, llm_log, topic_vars,
                   clustering_config, embedding_model, embeddings,
                   k_range, optimal_k, cluster_labels, cluster_stats,
                   cluster_csv, llm_vars, pipe_vars, io_vars, fn_vars, launches, run, prev>>

\* optimal_k = k_range[np.argmax(silhouette_scores)] (lines 66-69).
KSelect ==
    /\ script = "run_03" /\ pc = "ksweep"
    /\ Len(silhouette_scores) = Len(k_range)
    /\ \/ /\ silhouette_scores = <<>>
          /\ Fail("ValueError: attempt to get argmax of an empty sequence")
          /\ UNCHANGED optimal_k
       \/ /\ silhouette_scores # <<>>
          /\ optimal_k' = k_range[ArgMax(silhouette_scores)]
          /\ pc' = "kselected"
          /\ UNCHANGED error
    /\ UNCHANGED <<script, texts, files, llm_log, topic_vars,
                   clustering_config, embedding_model, embeddings,
                   k_range, silhouette_scores, kmeans_trials,
                   silhouette_calls, one_label, cluster_labels,
                   cluster_stats, cluster_csv, llm_vars, pipe_vars, io_vars, fn_vars, launches, run,
                   memo, prev>>

\* cluster_documents, lines 82-104: the final KMeans (random_state=42; equal
\* vectors get equal labels, every label below n_clusters) and the cluster
\* statistics.
ClusterFit ==
    /\ script = "run_03" /\ pc = "kselected"
    /\ \/ /\ clustering_config.algorithm # "kmeans"
          /\ Fail("ValueError: unsupported clustering algorithm")
          /\ UNCHANGED <<cluster_labels, cluster_stats, k_range,
                         silhouette_scores, kmeans_trials, silhouette_calls,
                         one_label, memo>>
       \/ /\ clustering_config.algorithm = "kmeans"
          /\ LET n_clusters ==
                    FinalNClusters(optimal_k,
                                   MaxK(clustering_config, Len(texts)))
                 points == {embeddings[i] : i \in 1..Len(texts)}
             IN \E lab \in [points -> 0..(n_clusters - 1)] :
                   /\ Seeded(Call("KMeans.fit_predict", n_clusters), lab)
                   /\ cluster_labels' =
                          [i \in 1..Len(texts) |-> lab[embeddings[i]]]
          /\ cluster_stats' =
                CreateClusterStats(texts, cluster_labels', embeddings)
          /\ k_range' = <<>> /\ silhouette_scores' = <<>>
          /\ kmeans_trials' = <<>>
          /\ silhouette_calls' = <<>> /\ one_label' = {}
          /\ pc' = "clustered"
          /\ UNCHANGED error
    /\ UNCHANGED <<script, texts, files, llm_log, topic_vars,
                   clustering_config, embedding_model, embeddings,
                   optimal_k, cluster_csv, llm_vars, pipe_vars, io_vars, fn_vars, launches, run, prev>>

\* save_cluster_results (run_03, line 57): the summary, the assignment
\* table and the representative indices.
SaveClusterResults ==
    /\ script = "run_03" /\ pc = "clustered"
    /\ cluster_csv' = ClusterAssignmentRows(cluster_labels)
    /\ files' = files \cup ClusterTables
    /\ pc' = "saved"
    /\ UNCHANGED <<script, error, texts, llm_log, topic_vars,
                   clustering_config, embedding_model,
                   embeddings, k_range, silhouette_scores, kmeans_trials,
                   silhouette_calls, one_label,
                   optimal_k, cluster_labels, cluster_stats, llm_vars,
                   pipe_vars, io_vars, fn_vars, launches, run, memo, prev>>

\* visualize_clusters (run_03, line 61): the chart is written, or drawing
\* or writing it raises.
VisualizeClusters ==
    /\ script = "run_03" /\ pc = "saved"
    /\ \/ /\ files' = files \cup {"cluster_distribution.png"}
          /\ pc' = "done"
          /\ UNCHANGED error
       \/ /\ Fail("visualize_clusters raised")
          /\ UNCHANGED files
    /\ UNCHANGED <<script, texts, llm_log, topic_vars, cluster_vars, llm_vars,
                   pipe_vars, io_vars, fn_vars, launches, run, memo, prev>>

\* ------------------------------------------------------------ LLM analysis
\* The seven keys of an analysis record (_create_analysis_prompt, lines
\* 68-74, in the order of the source; the source's keys are Korean).
AnalysisKeys == {"cause", "actor", "requirement", "tone", "risk", "solution",
                 "policy_implication"}

\* The seven keys of a cluster summary (lines 171-177).
SummaryKeys == {"main_cause", "main_actors", "common_requirement",
                "overall_tone", "main_risk", "resolution_priority",
                "policy_improvement"}

\* _mock_analysis: the fixed "analysis unavailable" record.
MockAnalysis == [kind |-> "mock", keys |-> AnalysisKeys]

\* _create_default_analysis: the fixed "analysis failed" record.
CreateDefaultAnalysis == [kind |-> "default", keys |-> AnalysisKeys]

\* _create_default_cluster_summary
CreateDefaultClusterSummary == [kind |-> "default", keys |-> SummaryKeys]

\* A parse that hands back whatever it could read.
ParseAnalysisResultRaw(response, keys) ==
    IF response = "ok" THEN [kind |-> "parsed", keys |-> keys]
    ELSE [kind |-> "parsed", keys |-> {}]

\* _parse_analysis_result: the JSON object of the answer (with the keys the
\* prompt asked for), or the default analysis when nothing parses.
ParseAnalysisResult(response, keys) ==
    IF response = "ok" THEN [kind |-> "parsed", keys |-> keys]
    ELSE CreateDefaultAnalysis

\* analyze_document (lines 33-56): what it returns.
AnalyzeDocument(has_client, response) ==
    IF ~has_client THEN MockAnalysis
    ELSE IF response = "error" THEN MockAnalysis
    ELSE ParseAnalysisResult(response, AnalysisKeys)

\* _summarize_cluster (lines 147-199): what it returns.
SummarizeCluster(has_client, response) ==
    IF ~has_client THEN CreateDefaultClusterSummary
    ELSE IF response = "error" THEN CreateDefaultClusterSummary
    ELSE ParseAnalysisResult(response, SummaryKeys)

\* The requests one call issues: one if there is a client, none otherwise.
Requests(has_client, kind, id, response) ==
    IF has_client THEN <<Request(kind, id, response)>> ELSE <<>>

\* run_04 lines 53-62: cluster_texts, a dict filled in row order (so the
\* clusters come in the order of their first row).
CollectClusterTexts(rows, txts) ==
    LET RECURSIVE Names(_)
        Names(i) ==
            IF i = 0 THEN <<>>
            ELSE LET before == Names(i - 1)
                 IN IF \E j \in 1..Len(before) : before[j] = rows[i].cluster_name
                    THEN before
                    ELSE Append(before, rows[i].cluster_name)
        RECURSIVE Pick(_, _)
        Pick(name, i) ==
            IF i > Len(rows) THEN <<>>
            ELSE (IF rows[i].cluster_name = name
                  THEN <<txts[rows[i].document_id + 1]>> ELSE <<>>)
                 \o Pick(name, i + 1)
        names == Names(Len(rows))
    IN [c \in 1..Len(names) |->
           [cluster_name |-> names[c], texts |-> Pick(names[c], 1)]]

\* The files save_analysis_results writes.
AnalysisFiles == {"individual_analyses.csv", "cluster_analyses.csv",
                  "analysis_results.json"}

\* run_04 main, lines 51-62.
CollectTexts ==
    /\ script = "run_04" /\ pc = "main"
    /\ InputsLoaded
    /\ cluster_texts' = CollectClusterTexts(cluster_assignments, texts)
    /\ pc' = "analyze"
    /\ UNCHANGED <<script, error, texts, files, llm_log, topic_vars,
                   cluster_vars, client, cluster_assignments,
                   individual_analyses, analysis_results, pipe_vars, io_vars, fn_vars, launches, run,
                   memo, prev>>

\* analyze_cluster, one iteration of its loop (lines 127-135):
\* analyze_document, the two added fields, time.sleep(0.1).
AnalyzeClusterDocument ==
    /\ script = "run_04" /\ pc = "analyze"
    /\ Len(analysis_results) < Len(cluster_texts)
    /\ LET cluster == cluster_texts[Len(analysis_results) + 1]
           i == Len(individual_analyses)
       IN /\ i < Len(cluster.texts)
          /\ \E response \in Responses :
                /\ individual_analyses' =
                      Append(individual_analyses,
                             [document_index |-> i,
                              text |-> cluster.texts[i + 1],
                              analysis |-> AnalyzeDocument(client, response)])
                /\ llm_log' = llm_log
                      \o Requests(client, "document",
                                  <<cluster.cluster_name, i>>, response)
                      \o <<Sleep>>
    /\ UNCHANGED <<script, pc, error, texts, files, topic_vars, cluster_vars,
                   client, cluster_assignments, cluster_texts,
                   analysis_results, pipe_vars, io_vars, fn_vars, launches, run, memo, prev>>

\* analyze_cluster after its loop (lines 138-145) and run_04 line 75.
AnalyzeClusterSummary ==
    /\ script = "run_04" /\ pc = "analyze"
    /\ Len(analysis_results) < Len(cluster_texts)
    /\ LET cluster == cluster_texts[Len(analysis_results) + 1]
       IN /\ Len(individual_analyses) = Len(cluster.texts)
          /\ \E response \in Responses :
                /\ analysis_results' =
                      Append(analysis_results,
                             [cluster_name |-> cluster.cluster_name,
                              individual_analyses |-> individual_analyses,
                              cluster_summary |->
                                  SummarizeCluster(client, response)])
                /\ llm_log' = llm_log
                      \o Requests(client, "cluster",
                                  <<cluster.cluster_name, 0>>, response)
    /\ individual_analyses' = <<>>
    /\ UNCHANGED <<script, pc, error, texts, files, topic_vars, cluster_vars,
                   client, cluster_assignments, cluster_texts, pipe_vars,
                   io_vars, fn_vars, launches, run, memo, prev>>

\* save_analysis_results (run_04, line 79).
SaveAnalysisResults ==
    /\ script = "run_04" /\ pc = "analyze"
    /\ Len(analysis_results) = Len(cluster_texts)
    /\ files' = files \cup AnalysisFiles
    /\ pc' = "done"
    /\ UNCHANGED <<script, error, texts, llm_log, topic_vars, cluster_vars,
                   llm_vars, pipe_vars, io_vars, fn_vars, launches, run, memo, prev>>

\* ------------------------------------------------------------- run_all.py
\* Strings the code searches in are sequences of code points.
\* The step names of the command line (the help text of --steps and the
\* keys of step_scripts):
Preprocessing == <<112, 114, 101, 112, 114, 111, 99, 101, 115, 115, 105, 110, 103>>

Topic == <<116, 111, 112, 105, 99>>

Clustering == <<99, 108, 117, 115, 116, 101, 114, 105, 110, 103>>

Llm == <<108, 108, 109>>

Report == <<114, 101, 112, 111, 114, 116>>

TopicAnalysis == <<116, 111, 112, 105, 99, 45, 97, 110, 97, 108, 121, 115, 105, 115>>

\* A step name that is not documented ("x").
UnknownStep == <<120>>

StepNames == {Preprocessing, Topic, Clustering, Llm, Report, TopicAnalysis}

\* all_scripts (lines 20-30): (step_name, script_name); the step names are
\* the Korean display names, the fourth one starting with "LLM".
AllScripts(skip_topic_analysis) ==
    << [step_name |-> <<45936, 51060, 53552, 32, 51204, 52376, 47532>>,
        script_name |-> "run_01_data_preprocessing.py"],
       [step_name |-> <<51452, 51228, 32, 48156, 44204>>,
        script_name |-> "run_02_topic_discovery.py"],
       [step_name |-> <<53364, 47084, 49828, 53552, 47553>>,
        script_name |-> "run_03_clustering.py"],
       [step_name |-> <<76, 76, 77, 32, 48516, 49437>>,
        script_name |-> "run_04_llm_analysis.py"],
       [step_name |-> <<47532, 54252, 53944, 32, 49373, 49457>>,
        script_name |-> "run_05_report_generation.py"] >>
    \o (IF skip_topic_analysis THEN <<>>
        ELSE << [step_name |-> <<51452, 51228, 48324, 32, 49345, 49464, 32,
                                 48516, 49437>>,
                 script_name |-> "run_topic_analysis.py"] >>)

\* str.lower(): only cased characters change (here A-Z).
Lower(s) == [i \in 1..Len(s) |-> IF s[i] \in 65..90 THEN s[i] + 32 ELSE s[i]]

\* Python's sub in s for strings.
Contains(sub, s) ==
    \E i \in 0..(Len(s) - Len(sub)) : SubSeq(s, i + 1, i + Len(sub)) = sub

\* Lines 33-38: the scripts whose lower-cased display name contains one of
\* the given steps, in the order of all_scripts.
Selected(steps, scripts) ==
    LET RECURSIVE Filter(_)
        Filter(i) ==
            IF i > Len(scripts) THEN <<>>
            ELSE (IF \E j \in 1..Len(steps) :
                        Contains(steps[j], Lower(scripts[i].step_name))
                  THEN <<scripts[i]>> ELSE <<>>) \o Filter(i + 1)
    IN Filter(1)

\* step_scripts (lines 87-94); "" for a name that is not a key.
StepScripts(step_name) ==
    CASE step_name = Preprocessing -> "run_01_data_preprocessing.py"
      [] step_name = Topic -> "run_02_topic_discovery.py"
      [] step_name = Clustering -> "run_03_clustering.py"
      [] step_name = Llm -> "run_04_llm_analysis.py"
      [] step_name = Report -> "run_05_report_generation.py"
      [] step_name = TopicAnalysis -> "run_topic_analysis.py"
      [] OTHER -> ""

\* The command lines: --step NAME, or --steps NAME..., or neither.
Args ==
    [step : StepNames \cup {UnknownStep}, steps : {<<>>},
     skip_topic_analysis : {FALSE}]
    \cup [step : {<<>>},
          steps : {<<>>} \cup {<<s>> : s \in StepNames}
                  \cup {<<s, t>> : s \in {Topic, Llm}, t \in {Clustering, Report}},
          skip_topic_analysis : BOOLEAN]

\* subprocess.run([sys.executable, script_name]): the stage process ran to
\* its end and left its returncode; outputs/ holds what it wrote.
Launch(script_name, returncode) ==
    launched' = Append(launched, [script_name |-> script_name,
                                  returncode |-> returncode])

\* main (lines 132-137) into run_pipeline, lines 19-38.
SelectScripts ==
    /\ script = "run_all" /\ pc = "main"
    /\ args.step = <<>>
    /\ all_scripts' = IF args.steps # <<>>
                      THEN Selected(args.steps, AllScripts(args.skip_topic_analysis))
                      ELSE AllScripts(args.skip_topic_analysis)
    /\ pc' = "stages"
    /\ UNCHANGED <<script, error, texts, files, llm_log, topic_vars,
                   cluster_vars, llm_vars, args, launched, pipeline_result,
                   artifacts, io_vars, fn_vars, launches, run, memo, prev>>

\* The stage exited with returncode 0 (lines 59-60): on to the next.
StageCompleted(script_name) ==
    /\ Launch(script_name, 0)
    /\ artifacts' = artifacts \cup {<<script_name, "complete">>}
    /\ UNCHANGED <<pc, pipeline_result>>

\* A failed stage after which the loop goes on.
StageFailedContinue(script_name, wrote) ==
    /\ Launch(script_name, 1)
    /\ artifacts' = artifacts \cup wrote
    /\ UNCHANGED <<pc, pipeline_result>>

\* The stage exited with a returncode other than 0 (lines 55-58), having
\* written nothing or part of its output: return False.
StageFailed(script_name, wrote) ==
    /\ Launch(script_name, 1)
    /\ artifacts' = artifacts \cup wrote
    /\ pipeline_result' = "False"
    /\ pc' = "done"

\* One iteration of run_pipeline's loop (lines 46-64).
RunStage ==
    /\ script = "run_all" /\ pc = "stages"
    /\ Len(launched) < Len(all_scripts)
    /\ LET script_name == all_scripts[Len(launched) + 1].script_name
       IN \/ StageCompleted(script_name)
          \/ \E wrote \in {{}, {<<script_name, "partial">>}} :
                StageFailed(script_name, wrote)
    /\ UNCHANGED <<script, error, texts, files, llm_log, topic_vars,
                   cluster_vars, llm_vars, args, all_scripts, io_vars, fn_vars, launches, run, memo, prev>>

\* run_pipeline after its loop (lines 66-83): return True.
PipelineDone ==
    /\ script = "run_all" /\ pc = "stages"
    /\ Len(launched) = Len(all_scripts)
    /\ pipeline_result' = "True"
    /\ pc' = "done"
    /\ UNCHANGED <<script, error, texts, files, llm_log, topic_vars,
                   cluster_vars, llm_vars, args, all_scripts, launched,
                   artifacts, io_vars, fn_vars, launches, run, memo, prev>>

\* main into run_individual_step (lines 85-118).
RunIndividualStep ==
    /\ script = "run_all" /\ pc = "main"
    /\ args.step # <<>>
    /\ LET script_name == StepScripts(args.step)
       IN IF script_name = ""
          THEN /\ pipeline_result' = "False"
               /\ UNCHANGED <<launched, artifacts>>
          ELSE \/ /\ Launch(script_name, 0)
                  /\ artifacts' = artifacts \cup {<<script_name, "complete">>}
                  /\ pipeline_result' = "True"
               \/ \E wrote \in {{}, {<<script_name, "partial">>}} :
                     /\ Launch(script_name, 1)
                     /\ artifacts' = artifacts \cup wrote
                     /\ pipeline_result' = "False"
    /\ pc' = "done"
    /\ UNCHANGED <<script, error, texts, files, llm_log, topic_vars,
                   cluster_vars, llm_vars, args, all_scripts, io_vars, fn_vars, launches, run, memo, prev>>

\* ------------------------------------------------------------ the machine
\* The results a launch leaves behind.
Produced ==
    [pc |-> pc, optimal_topics |-> optimal_topics,
     topic_assignments |-> topic_assignments,
     assignments_csv |-> assignments_csv, optimal_k |-> optimal_k,
     cluster_labels |-> cluster_labels, cluster_csv |-> cluster_csv]

NoPrev ==
    [pc |-> "", optimal_topics |-> 0, topic_assignments |-> <<>>,
     assignments_csv |-> <<>>, optimal_k |-> 0, cluster_labels |-> <<>>,
     cluster_csv |-> <<>>]

\* What __init__ and the first lines of main() set, whatever the input.
Fresh ==
    /\ pc = "main" /\ error = ""
    /\ files = {} /\ llm_log = <<>>
    /\ fit_n = 0 /\ topic_range = <<>> /\ coherence_scores = <<>>
    /\ lda_trials = <<>> /\ thrown = {} /\ optimal_topics = 0
    /\ vectorizer = NoVectorizer /\ model = NoModel
    /\ topic_assignments = <<>> /\ confidence_scores = <<>>
    /\ assignments_csv = <<>>
    /\ embedding_model = "None"
    /\ k_range = <<>> /\ silhouette_scores = <<>>
    /\ kmeans_trials = <<>> /\ silhouette_calls = <<>> /\ one_label = {}
    /\ optimal_k = 0
    /\ cluster_stats = <<>> /\ cluster_csv = <<>>
    /\ cluster_texts = <<>> /\ individual_analyses = <<>>
    /\ analysis_results = <<>>
    /\ all_scripts = <<>> /\ launched = <<>> /\ pipeline_result = "None"
    /\ artifacts = {}
    /\ global_rng = "os.urandom" /\ topic_names = <<>>
    /\ representative_indices = <<>> /\ top_terms = <<>>

\* A stage script starts with no embeddings, labels or fitted components
\* and calls neither method with arguments of its own.
StageStart ==
    /\ embeddings = <<>> /\ cluster_labels = <<>>
    /\ n_representatives = DefaultNRepresentatives
    /\ components = <<>> /\ n_terms = 0

\* The configurations of the runs that are launched a second time.
RelaunchTopicConfigs == NamingConfigs

InitTopic ==
    /\ script = "run_02"
    /\ inputs = RequiredInputs("run_02")
    /\ \E n \in 1..MaxTopicDocs : texts = Corpus(n)
    /\ \/ launches = 1 /\ llm_client = FALSE /\ topic_config \in TopicConfigs
       \/ launches = 1 /\ llm_client = TRUE
          /\ topic_config \in NamingConfigs \cup KeywordNamingConfigs
       \/ launches = 2 /\ llm_client = FALSE
          /\ topic_config \in RelaunchTopicConfigs
          /\ texts = Corpus(MaxTopicDocs)
    /\ clustering_config = DefaultClusteringConfig
    /\ client = FALSE /\ cluster_assignments = <<>>
    /\ args = [step |-> <<>>, steps |-> <<>>, skip_topic_analysis |-> FALSE]

InitCluster ==
    /\ script = "run_03"
    /\ inputs = RequiredInputs("run_03")
    /\ \E n \in 1..MaxClusterDocs : texts = Corpus(n)
    /\ topic_config = DefaultTopicConfig
    /\ llm_client = FALSE
    /\ \/ launches = 1 /\ clustering_config \in ClusteringConfigs
       \/ launches = 2 /\ clustering_config = DefaultClusteringConfig
          /\ texts = Corpus(MaxClusterDocs)
    /\ client = FALSE /\ cluster_assignments = <<>>
    /\ args = [step |-> <<>>, steps |-> <<>>, skip_topic_analysis |-> FALSE]

\* run_04: the corpus and the rows of cluster_assignments.csv (one per
\* document, cluster_name = cluster label + 1, two clusters at most).
InitLLM ==
    /\ script = "run_04"
    /\ inputs = RequiredInputs("run_04")
    /\ \E n \in 1..MaxLLMDocs :
          /\ texts = Corpus(n)
          /\ \E label \in [1..n -> 0..1] :
                cluster_assignments =
                    [i \in 1..n |-> [document_id |-> i - 1,
                                     cluster_name |-> label[i] + 1]]
    /\ client \in BOOLEAN
    /\ launches = 1
    /\ topic_config = DefaultTopicConfig
    /\ llm_client = FALSE
    /\ clustering_config = DefaultClusteringConfig
    /\ args = [step |-> <<>>, steps |-> <<>>, skip_topic_analysis |-> FALSE]

InitPipeline ==
    /\ script = "run_all"
    /\ inputs = {}
    /\ args \in Args
    /\ launches = 1
    /\ texts = <<>>
    /\ topic_config = DefaultTopicConfig
    /\ llm_client = FALSE
    /\ clustering_config = DefaultClusteringConfig
    /\ client = FALSE /\ cluster_assignments = <<>>

\* A stage launched while a file it reads is missing (an API key is set).
InitMissingInput ==
    /\ script \in {"run_02", "run_03", "run_04"}
    /\ inputs \in SUBSET RequiredInputs(script)
    /\ inputs # RequiredInputs(script)
    /\ launches = 1
    /\ texts = <<>>
    /\ topic_config = DefaultTopicConfig
    /\ llm_client = TRUE
    /\ clustering_config = DefaultClusteringConfig
    /\ client = TRUE /\ cluster_assignments = <<>>
    /\ args = [step |-> <<>>, steps |-> <<>>, skip_topic_analysis |-> FALSE]

\* select_representative_documents called on the labels and embeddings of
\* a corpus (equal texts have equal embeddings) with some n_representatives.
InitSelect ==
    /\ script = "select_representative_documents"
    /\ inputs = {} /\ launches = 1
    /\ \E n \in 1..MaxSelectDocs :
          /\ texts = Corpus(n)
          /\ cluster_labels \in [1..n -> 0..1]
          /\ \E enc \in [Texts -> Vec] :
                embeddings = [i \in 1..n |-> enc[texts[i]]]
    /\ n_representatives \in 0..(MaxSelectDocs + 1)
    /\ components = <<>> /\ n_terms = 0
    /\ topic_config = DefaultTopicConfig
    /\ llm_client = FALSE
    /\ clustering_config = DefaultClusteringConfig
    /\ client = FALSE /\ cluster_assignments = <<>>
    /\ args = [step |-> <<>>, steps |-> <<>>, skip_topic_analysis |-> FALSE]

\* get_top_terms called with some n_terms on a model of one or two topics
\* over the vocabulary FeatureNames.
InitTopTerms ==
    /\ script = "get_top_terms"
    /\ inputs = {} /\ launches = 1
    /\ texts = <<>>
    /\ embeddings = <<>> /\ cluster_labels = <<>>
    /\ n_representatives = DefaultNRepresentatives
    /\ \E K \in 1..2 :
          components \in [1..K -> [1..Len(FeatureNames) -> 0..MaxTermWeight]]
    /\ n_terms \in 0..(Len(FeatureNames) + 1)
    /\ topic_config = DefaultTopicConfig
    /\ llm_client = FALSE
    /\ clustering_config = DefaultClusteringConfig
    /\ client = FALSE /\ cluster_assignments = <<>>
    /\ args = [step |-> <<>>, steps |-> <<>>, skip_topic_analysis |-> FALSE]

Init ==
    /\ \/ InitTopic /\ StageStart
       \/ InitCluster /\ StageStart
       \/ InitLLM /\ StageStart
       \/ InitPipeline /\ StageStart
       \/ InitMissingInput /\ StageStart
       \/ InitSelect
       \/ InitTopTerms
    /\ Fresh
    /\ run = 1 /\ memo = <<>> /\ prev = NoPrev

\* The finished stage script is launched again on the same input: a new
\* process, the same configuration file and corpus, the same seeds.
Rerun ==
    /\ script \in {"run_02", "run_03"}
    /\ launches = 2 /\ run = 1
    /\ pc \in {"done", "failed"}
    /\ run' = 2
    /\ prev' = Produced
    /\ pc' = "main" /\ error' = ""
    /\ files' = {} /\ llm_log' = <<>>
    /\ fit_n' = 0 /\ topic_range' = <<>> /\ coherence_scores' = <<>>
    /\ lda_trials' = <<>> /\ thrown' = {} /\ optimal_topics' = 0
    /\ vectorizer' = NoVectorizer /\ model' = NoModel
    /\ topic_assignments' = <<>> /\ confidence_scores' = <<>>
    /\ assignments_csv' = <<>>
    /\ embedding_model' = "None"
    /\ embeddings' = <<>> /\ k_range' = <<>> /\ silhouette_scores' = <<>>
    /\ kmeans_trials' = <<>> /\ silhouette_calls' = <<>> /\ one_label' = {}
    /\ optimal_k' = 0 /\ cluster_labels' = <<>>
    /\ cluster_stats' = <<>> /\ cluster_csv' = <<>>
    /\ topic_config' = [topic_config EXCEPT !.n_topics = CfgTopics]
    /\ global_rng' = "os.urandom" /\ topic_names' = <<>>
    /\ UNCHANGED <<script, texts, llm_client, clustering_config, llm_vars,
                   pipe_vars, inputs, fn_vars, launches,
                   memo>>

Next ==
    \/ MissingInput
    \/ FitBegin
    \/ TopicTrial
    \/ TopicSelect
    \/ FitModel
    \/ AssignTopics
    \/ SaveResults
    \/ VisualizeTopics
    \/ GetTopTerms
    \/ LoadEmbeddingModel
    \/ ClusterBegin
    \/ KTrial
    \/ KSelect
    \/ ClusterFit
    \/ SaveClusterResults
    \/ VisualizeClusters
    \/ SelectRepresentativeDocuments
    \/ CollectTexts
    \/ AnalyzeClusterDocument
    \/ AnalyzeClusterSummary
    \/ SaveAnalysisResults
    \/ SelectScripts
    \/ RunStage
    \/ PipelineDone
    \/ RunIndividualStep
    \/ Rerun

Spec == Init /\ [][Next]_vars

\* ------------------------------------------------------------- properties
ArgMaxError == "ValueError: attempt to get argmax of an empty sequence"

\* find_optimal_topics has been called and is over (returned or raised).
TopicSelectionOver ==
    /\ script = "run_02" /\ topic_config.auto_find_topics
    /\ pc \notin {"main", "sweep"}

\* The cap find_optimal_topics works under when fit calls it.
TopicCap == MaxTopicsSearch(topic_config, DefaultMaxTopics)

\* find_optimal_k has been called and is over (returned or raised).
ClusterSelectionOver ==
    /\ script = "run_03" /\ pc \notin {"main", "embed", "ksweep"}
    /\ error \notin {"SentenceTransformer raised", "FileNotFoundError"}

ClusterCap == clustering_config.n_clusters_max

\* K is the candidate of the first position holding the largest score.
IsSmallestBest(range, scores, K) ==
    \E i \in 1..Len(scores) :
        /\ range[i] = K
        /\ \A j \in 1..Len(scores) : scores[j] <= scores[i]
        /\ \A j \in 1..Len(scores) :
              scores[j] = scores[i] => range[j] >= K

\* C1: for every corpus of N >= 4 documents handed to find_optimal_topics
\* and every cap, the call returns a topic count K with
\* 2 <= K <= min(cap, floor(N/2)).
C1_TopicCountInRange ==
    (TopicSelectionOver /\ fit_n >= 4)
        => /\ optimal_topics >= 2
           /\ optimal_topics <= Min(TopicCap, fit_n \div 2)

\* C2 as stated: for every corpus of N >= 4 documents and every cap,
\* find_optimal_k (called by cluster_documents) returns a cluster count K
\* with 2 <= K <= min(cap, floor(N/3)).  Runs in which a trial fit raised
\* (C10) are left aside, so a violation is a run in which every trial
\* succeeded.
C2_Original ==
    (ClusterSelectionOver /\ Len(texts) >= 4 /\ error # "trial KMeans raised")
        => /\ optimal_k >= 2
           /\ optimal_k <= Min(ClusterCap, Len(texts) \div 3)

\* C2 as amended: whenever find_optimal_k returns a cluster count K,
\* 2 <= K <= min(cap, floor(N/3)); with fewer than 6 documents or a cap
\* below 2 it returns none (the candidate range is empty and it raises).
C2_ClusterCountInRange ==
    script = "run_03" =>
        /\ optimal_k # 0 =>
              /\ optimal_k >= 2
              /\ optimal_k <= Min(ClusterCap, Len(texts) \div 3)
        /\ (ClusterSelectionOver /\ (Len(texts) < 6 \/ ClusterCap < 2))
              => (pc = "failed" /\ error = ArgMaxError /\ optimal_k = 0)
        /\ (pc = "kselected") => optimal_k # 0

C2_Witness ==
    /\ script = "run_03" /\ pc = "kselected"
    /\ Len(texts) = 9 /\ optimal_k = 3

\* C3: in both sweeps the returned K is the smallest candidate whose
\* recorded score equals the maximum recorded score.
C3_SmallestBestK ==
    /\ (script = "run_02" /\ pc = "vectorize" /\ topic_config.auto_find_topics)
          => IsSmallestBest(topic_range, coherence_scores, optimal_topics)
    /\ (script = "run_03" /\ pc = "kselected")
          => IsSmallestBest(k_range, silhouette_scores, optimal_k)

\* A tie for the best score between the two candidates of a topic sweep.
C3_Witness ==
    /\ script = "run_02" /\ pc = "vectorize"
    /\ Len(coherence_scores) = 2
    /\ coherence_scores[1] = coherence_scores[2]
    /\ optimal_topics = 2

\* The range the sweep is documented to cover: 2..min(cap, floor(N/2)).
TopicRangeInclusive(n, max_topics) == Range(2, Min(max_topics, n \div 2) + 1)

\* C4: the topic sweep fits exactly one trial for each K of the inclusive
\* range 2..min(cap, floor(N/2)), ascending, and no other K; with 4
\* documents K = 2 is the candidate.
C4_SweepCoversInclusiveRange ==
    (script = "run_02" /\ pc = "sweep"
        /\ Len(coherence_scores) = Len(topic_range))
        => lda_trials = TopicRangeInclusive(fit_n, TopicCap)

\* The table holds one row per document 0..n-1, each id exactly once.
OneRowPerDocument(rows, n) ==
    /\ Len(rows) = n
    /\ \A d \in 0..(n - 1) :
          Cardinality({i \in 1..Len(rows) : rows[i].document_id = d}) = 1

\* C5: the topic-assignment table save_results writes has one row per
\* document of the corpus (ids 0..N-1, each once, one topic id each), also
\* when pre-sampling fitted the model on a subset.
C5_TopicTableCoversCorpus ==
    (script = "run_02" /\ pc = "saved")
        => /\ OneRowPerDocument(assignments_csv, Len(texts))
           /\ \A i \in 1..Len(assignments_csv) :
                 assignments_csv[i].topic_id \in 0..(topic_config.n_topics - 1)

\* A saved table for a corpus larger than the sample the model was fitted on.
C5_Witness ==
    /\ script = "run_02" /\ pc = "saved"
    /\ topic_config.large_scale.enabled
    /\ fit_n < Len(texts)
    /\ Len(assignments_csv) = Len(texts)

\* C6: the cluster-assignment table save_cluster_results writes has one
\* row per document of the corpus, each with one cluster id among the
\* optimal_k clusters 0..K-1.
C6_ClusterTableCoversCorpus ==
    (script = "run_03" /\ pc = "saved")
        => /\ OneRowPerDocument(cluster_csv, Len(texts))
           /\ \A i \in 1..Len(cluster_csv) :
                 cluster_csv[i].cluster_id \in 0..(optimal_k - 1)

\* A saved table of 9 documents spread over two clusters, fewer than max_k.
C6_Witness ==
    /\ script = "run_03" /\ pc = "saved"
    /\ Len(cluster_csv) = 9
    /\ optimal_k = 2
    /\ \E i, j \in 1..Len(cluster_csv) :
          cluster_csv[i].cluster_id # cluster_csv[j].cluster_id

\* The similarity of document d to the centroid of its cluster.
SimOf(d) ==
    Similarity(embeddings[d],
               ClusterCenter(embeddings, Members(cluster_labels, cluster_labels[d])))

\* The document a summary row names as representative.
RepresentativeDoc(row) ==
    Members(cluster_labels, row.cluster_id)[row.representative_idx + 1]

ClusterDocs(row) == {d \in 1..Len(texts) : cluster_labels[d] = row.cluster_id}

\* C7: the representative of every summary row is a member of the cluster,
\* no member is more similar to the centroid, and among the members tied
\* for the highest similarity it has the lowest document id.
C7_RepresentativeIsBest ==
    (script = "run_03" /\ pc \in {"clustered", "saved"})
        => \A j \in 1..Len(cluster_stats) :
              LET row == cluster_stats[j]
                  rep == RepresentativeDoc(row)
              IN /\ rep \in ClusterDocs(row)
                 /\ row.representative_text = texts[rep]
                 /\ \A d \in ClusterDocs(row) : ~SimGreater(SimOf(d), SimOf(rep))
                 /\ \A d \in ClusterDocs(row) :
                       d < rep => SimGreater(SimOf(rep), SimOf(d))

\* A cluster in which two members tie for the highest similarity and a
\* third is less similar.
C7_Witness ==
    /\ script = "run_03" /\ pc = "clustered"
    /\ \E j \in 1..Len(cluster_stats) :
          LET row == cluster_stats[j]
              rep == RepresentativeDoc(row)
          IN /\ \E d \in ClusterDocs(row) :
                   d > rep /\ ~SimGreater(SimOf(rep), SimOf(d))
             /\ \E d \in ClusterDocs(row) : SimGreater(SimOf(rep), SimOf(d))

\* C8: for each document assign_topics returns a topic id that indexes the
\* largest weight of the document's row, and that weight as confidence.
C8_AssignIsArgMax ==
    (script = "run_02" /\ pc \in {"assigned", "saved"})
        => /\ Len(topic_assignments) = Len(texts)
           /\ Len(confidence_scores) = Len(texts)
           /\ \A i \in 1..Len(texts) :
                 LET row == model.doc_topic[texts[i]]
                 IN /\ topic_assignments[i] \in 0..(Len(row) - 1)
                    /\ row[topic_assignments[i] + 1] = confidence_scores[i]
                    /\ \A k \in 1..Len(row) : row[k] <= confidence_scores[i]

\* A document whose largest weight is not in the first column.
C8_Witness ==
    /\ script = "run_02" /\ pc = "assigned"
    /\ \E i \in 1..Len(texts) :
          /\ topic_assignments[i] = 1
          /\ confidence_scores[i] = MaxWeight

\* C9: when a trial of the topic sweep raises, 0 is recorded for that K,
\* the sweep goes on to the remaining candidates, and find_optimal_topics
\* returns a K.
C9_TopicTrialFailureNonFatal ==
    (script = "run_02" /\ thrown # {})
        => /\ \A k \in thrown :
                 \E i \in 1..Len(coherence_scores) :
                     topic_range[i] = k /\ coherence_scores[i] = 0
           /\ lda_trials = SubSeq(topic_range, 1, Len(coherence_scores))
           /\ pc \in {"sweep", "vectorize", "failed"}
           /\ pc # "sweep"
                 => /\ lda_trials = topic_range
                    /\ \E i \in 1..Len(topic_range) :
                          topic_range[i] = optimal_topics
                    /\ error \in {"", "ValueError: empty vocabulary",
                                  "ValueError: unsupported algorithm"}

\* The first of two trials raised, the second was still fitted, and a K
\* was returned.
C9_Witness ==
    /\ script = "run_02" /\ pc = "vectorize"
    /\ 2 \in thrown
    /\ lda_trials = <<2, 3>>
    /\ optimal_topics = 3

\* C10: when a trial of the cluster sweep raises, 0 is recorded for that K
\* and the sweep goes on (the failure does not leave find_optimal_k).
C10_ClusterTrialFailureNonFatal ==
    (script = "run_03" /\ error = "trial KMeans raised")
        => /\ pc # "failed"
           /\ Len(silhouette_scores) = Len(kmeans_trials)
           /\ silhouette_scores[Len(silhouette_scores)] = 0

\* C11: fit called with an unsupported algorithm name fails before any
\* computation: no sweep trial has been fitted, no vectorizer has been
\* fitted, and self.vectorizer, self.model and the configured n_topics are
\* as they were before the call.
C11_UnsupportedAlgorithmFailsFirst ==
    (script = "run_02" /\ pc = "failed"
        /\ error = "ValueError: unsupported algorithm")
        => /\ lda_trials = <<>>
           /\ vectorizer = NoVectorizer
           /\ model = NoModel
           /\ topic_config.n_topics = CfgTopics

\* C12: when the configured embedding model cannot be loaded, the
\* clustering pipeline fails: no other model is loaded in its place and
\* cluster_documents produces no cluster result.
C12_UnavailableEmbeddingIsFatal ==
    (script = "run_03" /\ pc # "main" /\ embedding_model # "configured")
        => /\ pc = "failed"
           /\ embedding_model = "None"
           /\ cluster_labels = <<>>
           /\ cluster_stats = <<>>

\* The analyses of the cluster called name: those of its finished
\* analyze_cluster call, or those gathered so far by the running call.
AnalysesOf(name) ==
    IF \E c \in 1..Len(analysis_results) : analysis_results[c].cluster_name = name
    THEN LET c == CHOOSE c \in 1..Len(analysis_results) :
                      analysis_results[c].cluster_name = name
         IN analysis_results[c].individual_analyses
    ELSE individual_analyses

\* The entries are one per text, in the order of the texts.
OnePerDocumentInOrder(entries, txts) ==
    \A i \in 1..Len(entries) :
        /\ i <= Len(txts)
        /\ entries[i].document_index = i - 1
        /\ entries[i].text = txts[i]

\* C13: analyze_document never raises and always returns a record: the
\* fixed placeholder when the client is absent or the call throws, the
\* default placeholder when the response does not parse; these records
\* have the same seven fields, and analyze_cluster yields exactly one
\* analysis per input document, in input order.
C13_AnalyzeDocumentNeverRaises ==
    (script = "run_04" /\ InputsLoaded) =>
        /\ pc \in {"main", "analyze", "done"}
        /\ \A c \in 1..Len(analysis_results) :
              /\ Len(analysis_results[c].individual_analyses)
                    = Len(cluster_texts[c].texts)
              /\ OnePerDocumentInOrder(analysis_results[c].individual_analyses,
                                       cluster_texts[c].texts)
              /\ \A i \in 1..Len(analysis_results[c].individual_analyses) :
                    LET a == analysis_results[c].individual_analyses[i].analysis
                    IN /\ a.keys = AnalysisKeys
                       /\ ~client => a = MockAnalysis
        /\ Len(analysis_results) < Len(cluster_texts)
              => OnePerDocumentInOrder(
                     individual_analyses,
                     cluster_texts[Len(analysis_results) + 1].texts)
        /\ \A j \in 1..Len(llm_log) :
              (llm_log[j].op = "request" /\ llm_log[j].kind = "document") =>
                  LET a == AnalysesOf(llm_log[j].id[1])[llm_log[j].id[2] + 1].analysis
                  IN /\ llm_log[j].id[2] < Len(AnalysesOf(llm_log[j].id[1]))
                     /\ llm_log[j].response = "error" => a = MockAnalysis
                     /\ llm_log[j].response = "malformed"
                           => a = CreateDefaultAnalysis
                     /\ MockAnalysis.keys = CreateDefaultAnalysis.keys
                     /\ Cardinality(a.keys) = 7

\* A finished cluster of at least two documents in which one call threw
\* and one answer did not parse.
C13_Witness ==
    /\ script = "run_04" /\ pc = "done" /\ client
    /\ \E c \in 1..Len(analysis_results) :
          LET entries == analysis_results[c].individual_analyses
          IN /\ \E i \in 1..Len(entries) : entries[i].analysis = MockAnalysis
             /\ \E i \in 1..Len(entries) :
                   entries[i].analysis = CreateDefaultAnalysis

\* The position of a script in the full list of run_pipeline.
PositionIn(script_name, scripts) ==
    CHOOSE i \in 1..Len(scripts) : scripts[i].script_name = script_name

\* C14: run_pipeline launches the stages one after another in the fixed
\* order, each only after the previous one exited with 0; after the first
\* stage that exits with failure it launches no further stage and returns
\* False, and the artifacts of the stages that completed are still there.
C14_PipelineFailFast ==
    (script = "run_all" /\ args.step = <<>> /\ pc # "main") =>
        LET full == AllScripts(args.skip_topic_analysis)
        IN /\ Len(launched) <= Len(all_scripts)
           /\ \A i \in 1..Len(launched) :
                 launched[i].script_name = all_scripts[i].script_name
           /\ \A i, j \in 1..Len(launched) :
                 i < j => /\ launched[i].returncode = 0
                          /\ PositionIn(launched[i].script_name, full)
                                < PositionIn(launched[j].script_name, full)
           /\ \A i \in 1..Len(launched) :
                 launched[i].returncode # 0
                     => /\ i = Len(launched)
                        /\ pc = "done"
                        /\ pipeline_result = "False"
           /\ \A i \in 1..Len(launched) :
                 launched[i].returncode = 0
                     => <<launched[i].script_name, "complete">> \in artifacts
           /\ pipeline_result = "True"
                 => /\ Len(launched) = Len(all_scripts)
                    /\ \A i \in 1..Len(launched) : launched[i].returncode = 0

\* The third stage failed after two stages completed; three stages were
\* left unlaunched.
C14_Witness ==
    /\ script = "run_all" /\ pc = "done" /\ pipeline_result = "False"
    /\ Len(all_scripts) = 6
    /\ Len(launched) = 3
    /\ launched[3].returncode # 0
    /\ <<launched[1].script_name, "complete">> \in artifacts
    /\ <<launched[2].script_name, "complete">> \in artifacts

\* C15: a stage either fully succeeds or leaves none of its own output:
\* when run_02 main or run_03 main ends in failure, the launch has
\* written no output file.
C15_FailedStageLeavesNoOutput ==
    (script \in {"run_02", "run_03"} /\ pc = "failed") => files = {}

\* What the present launch has selected and assigned.
Selections ==
    [optimal_topics |-> optimal_topics,
     topic_assignments |-> topic_assignments,
     assignments_csv |-> assignments_csv, optimal_k |-> optimal_k,
     cluster_labels |-> cluster_labels, cluster_csv |-> cluster_csv]

C17_AtMostOneRequestPerItem ==
    \A i, j \in 1..Len(llm_log) :
        (/\ llm_log[i].op = "request" /\ llm_log[j].op = "request"
         /\ llm_log[i].kind = llm_log[j].kind
         /\ llm_log[i].id = llm_log[j].id)
            => i = j

\* The scripts of the pipeline that the step names denote (what --step
\* maps each name to), in pipeline order.
Denoted(steps, scripts) ==
    LET names == {StepScripts(steps[j]) : j \in 1..Len(steps)}
        RECURSIVE Filter(_)
        Filter(i) ==
            IF i > Len(scripts) THEN <<>>
            ELSE (IF scripts[i].script_name \in names
                  THEN <<scripts[i].script_name>> ELSE <<>>) \o Filter(i + 1)
    IN Filter(1)

\* C18: run_all.py --steps with documented step names executes exactly
\* the stage scripts those names denote, in pipeline order.
C18_StepsSelectDenotedScripts ==
    (script = "run_all" /\ args.steps # <<>> /\ pc # "main")
        => [i \in 1..Len(all_scripts) |-> all_scripts[i].script_name]
              = Denoted(args.steps, AllScripts(args.skip_topic_analysis))

\* C19: between every two consecutive requests to the LLM the inter-call
\* delay occurs (a sleep separates them), also after a request that failed
\* and from one cluster's summary request to the next cluster's first
\* document request.
C19_SleepBetweenRequests ==
    \A i \in 1..(Len(llm_log) - 1) :
        llm_log[i].op = "request" => llm_log[i + 1].op = "sleep"

\* The position of candidate k in the sweep's range.
KPosition(k) == CHOOSE i \in 1..Len(k_range) : k_range[i] = k

\* C20: in the cluster-count sweep, a trial partition with one distinct
\* label gets score 0 recorded for its K, silhouette_score is not computed
\* for it, and the sweep continues with the next K.
C20_OneLabelTrialScoresZero ==
    (script = "run_03" /\ one_label # {}) =>
        /\ \A k \in one_label :
              /\ \E i \in 1..Len(k_range) : k_range[i] = k
              /\ KPosition(k) <= Len(silhouette_scores)
              /\ silhouette_scores[KPosition(k)] = 0
              /\ \A j \in 1..Len(silhouette_calls) : silhouette_calls[j] # k
        /\ Len(silhouette_calls) + Cardinality(one_label)
              = Len(silhouette_scores)
        /\ kmeans_trials = SubSeq(k_range, 1, Len(kmeans_trials))
        /\ IF error = "trial KMeans raised"
           THEN Len(silhouette_scores) = Len(kmeans_trials) - 1
           ELSE Len(silhouette_scores) = Len(kmeans_trials)
        /\ (pc # "ksweep" /\ error # "trial KMeans raised")
              => kmeans_trials = k_range

\* The first trial (K = 2) had one label, and the trial for K = 3 was
\* fitted and scored after it.
C20_Witness ==
    /\ script = "run_03" /\ pc = "ksweep"
    /\ one_label = {2}
    /\ kmeans_trials = <<2, 3>>
    /\ silhouette_scores[1] = 0
    /\ silhouette_calls = <<3>>

\* C30: a stage whose required input file is missing returns failure
\* before it constructs a model or an analyzer, issues an external call or
\* writes an output file, and exits with a code that stops run_pipeline.
C30_MissingInputFailsFirst ==
    (script \in {"run_02", "run_03", "run_04"} /\ ~InputsLoaded /\ pc # "main")
        => /\ pc = "failed" /\ error = "FileNotFoundError"
           /\ ExitCode(pc) # 0
           /\ files = {} /\ llm_log = <<>>
           /\ vectorizer = NoVectorizer /\ model = NoModel
           /\ embedding_model = "None" /\ embeddings = <<>>
           /\ cluster_texts = <<>> /\ analysis_results = <<>>

\* run_04 launched with preprocessed_data.csv present and
\* cluster_assignments.csv missing has returned False.
C30_Witness ==
    /\ script = "run_04" /\ pc = "failed"
    /\ inputs = {"preprocessed_data.csv"}
    /\ client /\ llm_log = <<>> /\ files = {}

\* C26: no operation of the topic or clustering pipeline writes the
\* process-wide state of the random module during a run: it stays what the
\* interpreter started with.
C26_NoGlobalRngWrite ==
    script \in {"run_02", "run_03"} => global_rng = "os.urandom"

\* C22: sample_texts of every cluster summary row is a fixed-size sample
\* ranked by similarity: the texts of SampleCount distinct members (all of
\* them in a smaller cluster), the most similar to the centroid first, and
\* no member left out is more similar than a sampled one.
C22_SampleRankedBySimilarity ==
    (script = "run_03" /\ pc \in {"clustered", "saved"})
        => \A j \in 1..Len(cluster_stats) :
              LET row == cluster_stats[j]
                  m   == Len(row.sample_texts)
              IN \E ds \in [1..m -> ClusterDocs(row)] :
                    /\ \A a, b \in 1..m : a # b => ds[a] # ds[b]
                    /\ \A a \in 1..m : texts[ds[a]] = row.sample_texts[a]
                    /\ \A a, b \in 1..m :
                          a < b => ~SimGreater(SimOf(ds[b]), SimOf(ds[a]))
                    /\ \A d \in ClusterDocs(row) :
                          (\A a \in 1..m : ds[a] # d)
                              => \A a \in 1..m : ~SimGreater(SimOf(d), SimOf(ds[a]))

\* The indices select_representative_documents returned for cluster cid.
SelectedOf(cid) ==
    SelectSeq(representative_indices, LAMBDA d : cluster_labels[d + 1] = cid)

\* C21: for every cluster select_representative_documents(n) returns
\* exactly min(n, cluster size) distinct members, in descending similarity
\* to the centroid, and no member left out is more similar than one
\* returned (plain top-n by own similarity).
C21_TopNBySimilarity ==
    (script = "select_representative_documents" /\ pc = "done")
        => \A cid \in {cluster_labels[i] : i \in 1..Len(cluster_labels)} :
              LET sel  == SelectedOf(cid)
                  docs == {d \in 1..Len(cluster_labels) : cluster_labels[d] = cid}
              IN /\ Len(sel) = Min(n_representatives, Cardinality(docs))
                 /\ \A a, b \in 1..Len(sel) : a # b => sel[a] # sel[b]
                 /\ \A a, b \in 1..Len(sel) :
                       a < b => ~SimGreater(SimOf(sel[b] + 1), SimOf(sel[a] + 1))
                 /\ \A d \in docs :
                       (\A a \in 1..Len(sel) : sel[a] + 1 # d)
                           => \A a \in 1..Len(sel) :
                                 ~SimGreater(SimOf(d), SimOf(sel[a] + 1))

\* C27: for each cluster the representative of the cluster summary
\* (_create_cluster_stats) is the document listed first for that cluster by
\* select_representative_documents as save_cluster_results calls it.
C27_SummaryRepresentativeListedFirst ==
    (/\ script = "select_representative_documents" /\ pc = "done"
     /\ n_representatives = DefaultNRepresentatives)
        => LET stats == CreateClusterStats(texts, cluster_labels, embeddings)
           IN \A j \in 1..Len(stats) :
                 Members(cluster_labels, stats[j].cluster_id)
                        [stats[j].representative_idx + 1] - 1
                     = Head(SelectedOf(stats[j].cluster_id))

\* The positions (0-based) of the n heaviest terms of a topic, heaviest
\* first, the earlier position first among equal weights.
RECURSIVE StableTop(_, _, _)
StableTop(topic, left, n) ==
    IF n = 0 \/ left = {} THEN <<>>
    ELSE LET best == CHOOSE i \in left :
                        \A j \in left :
                           \/ topic[i + 1] > topic[j + 1]
                           \/ topic[i + 1] = topic[j + 1] /\ i <= j
         IN <<best>> \o StableTop(topic, left \ {best}, n - 1)

\* C23: get_top_terms(n) has one entry per topic, the n terms of highest
\* weight in descending weight, the term earlier in the vocabulary ranked
\* and kept first among terms of equal weight.
C23_TopTermsStableOrder ==
    (script = "get_top_terms" /\ pc = "done")
        => /\ DOMAIN top_terms = 0..(Len(components) - 1)
           /\ \A k \in DOMAIN top_terms :
                 LET topic == components[k + 1]
                     want  == StableTop(topic, 0..(Len(topic) - 1), n_terms)
                 IN top_terms[k] =
                       [i \in 1..Len(want) |->
                           <<FeatureNames[want[i] + 1], topic[want[i] + 1]>>]

\* C24: once the model is fitted, no step of the same process (assign_topics,
\* get_top_terms, generate_topic_names, create_topic_summary, save_results,
\* visualize_topics) fits or replaces the vectorizer or the model.
C24_NoRefitAfterFit ==
    [][(model.fitted /\ run' = run)
          => (vectorizer' = vectorizer /\ model' = model)]_vars

\* Results saved for a corpus larger than the sample the vectorizer was
\* fitted on, the vectorizer still the one of fit.
C24_Witness ==
    /\ script = "run_02" /\ pc = "saved"
    /\ fit_n < Len(texts)
    /\ Len(topic_assignments) = Len(texts)
    /\ vectorizer = [fitted |-> TRUE, n_docs |-> fit_n]
    /\ model.fitted

\* C29: after fit, with auto_find_topics on or off, the configured n_topics
\* is the K of the fitted model (the selected K when the sweep ran, the
\* configured one otherwise); every document-topic row has K weights, every
\* id assign_topics returns and every saved topic id is in 0..K-1, and
\* get_top_terms has one entry per row of the components, keyed from 0.
C29_OneKEverywhere ==
    /\ (script = "run_02" /\ pc \in {"fitted", "assigned", "saved", "done"})
          => LET K == model.n_components
             IN /\ model.fitted /\ K >= 1
                /\ topic_config.n_topics = K
                /\ topic_config.auto_find_topics => K = optimal_topics
                /\ ~topic_config.auto_find_topics => K = CfgTopics
                /\ \A t \in DOMAIN model.doc_topic :
                      DOMAIN model.doc_topic[t] = 1..K
                /\ pc # "fitted"
                      => /\ Len(topic_assignments) = Len(texts)
                         /\ \A i \in 1..Len(topic_assignments) :
                               topic_assignments[i] \in 0..(K - 1)
                /\ \A i \in 1..Len(assignments_csv) :
                      assignments_csv[i].topic_id \in 0..(K - 1)
    /\ (script = "get_top_terms" /\ pc = "done")
          => DOMAIN top_terms = 0..(Len(components) - 1)

\* The sweep selected a K other than the configured one and a document was
\* assigned to the last topic of the model fitted with it.
C29_Witness ==
    /\ script = "run_02" /\ pc = "assigned"
    /\ topic_config.auto_find_topics
    /\ optimal_topics # CfgTopics
    /\ model.n_components = optimal_topics
    /\ \E i \in 1..Len(topic_assignments) :
          topic_assignments[i] = optimal_topics - 1

\* C28: the dictionary generate_topic_names returned to save_results has a
\* name for every topic id 0..K-1, whatever the naming mode and the
\* outcome of each request, so every lookup topic_names[topic_id] that
\* save_results makes (top-terms rows, assignment rows) finds a name.
C28_EveryTopicNamed ==
    (script = "run_02" /\ pc \in {"saved", "done"})
        => /\ DOMAIN topic_names = 0..(model.n_components - 1)
           /\ \A t \in DOMAIN topic_names :
                 topic_names[t] \in {"keyword", "llm", "default"}
           /\ \A i \in 1..Len(assignments_csv) :
                 assignments_csv[i].topic_id \in DOMAIN topic_names
           /\ (llm_client /\ ~topic_config.large_scale.use_keyword_naming)
                 => \A t \in DOMAIN topic_names : topic_names[t] # "keyword"
           /\ (~llm_client \/ topic_config.large_scale.use_keyword_naming)
                 => /\ llm_log = <<>>
                    /\ \A t \in DOMAIN topic_names : topic_names[t] = "keyword"

\* With a client: one topic named by the LLM, one whose request raised and
\* one without documents, all three named.
C28_Witness ==
    /\ script = "run_02" /\ pc = "saved" /\ llm_client
    /\ \E t, u, w \in DOMAIN topic_names :
          /\ topic_names[t] = "llm"
          /\ topic_names[u] = "default"
          /\ \E j \in 1..Len(llm_log) :
                llm_log[j] = Request("topic", <<u, 0>>, "error")
          /\ topic_names[w] = "default"
          /\ \A i \in 1..Len(assignments_csv) : assignments_csv[i].topic_id # w

\* Keyword naming switched on with a client present: no request is made.
C28_KeywordWitness ==
    /\ script = "run_02" /\ pc = "saved" /\ llm_client
    /\ topic_config.large_scale.use_keyword_naming
    /\ topic_names # <<>>

====
